---- MODULE Spec2Model ----
(***************************************************************************)
(* The multi-process PPO training loop of                                   *)
(* acc_verifai/metadrive/multiprocessing_ppo.py: the orchestrator (main),   *)
(* the rollout workers (worker_fn), the trajectory channel (data_queue),    *)
(* generalized advantage estimation (compute_gae) and the minibatch loop    *)
(* of ppo_update.                                                           *)
(*                                                                          *)
(* Abstractions.  Arithmetic is exact integer arithmetic (the discount and  *)
(* the GAE lambda range over integers), so floating rounding is not         *)
(* modelled.  The environment is an external collaborator: what env.step    *)
(* returns (reward, terminated, truncated) is an input of every step.  An   *)
(* observation is identified by the worker seed that seeded its environment *)
(* and by the step at which it was recorded.  The critic's output is an     *)
(* input of every step.  The model parameters are identified by the         *)
(* sequence of optimizer steps applied to the initial parameters, each step *)
(* by the set of batch samples its minibatch averages over.  The numpy      *)
(* generator is a counter: a draw is a function of the counter and advances *)
(* it by one.                                                               *)
(***************************************************************************)
EXTENDS Integers, Sequences, FiniteSets, TLC

\* ------------------------------------------------------------------ bounds
MaxWorkers == 2
MaxSteps == 2
MaxTotalTimesteps == 4
MaxEpochs == 2
MaxMinibatch == 2
MaxT == 3
MaxBatch == 4
MaxGenerator == 23

\* ------------------------------------------------- constants of the source
DefaultSeed == 4
DequeMaxLen == 100

\* --------------------------------------------------------------- input sets
Rewards == {0, 1}
Values == {0, 1}
CriticValues == {1}
TotalTimesteps == {MaxTotalTimesteps - 1, MaxTotalTimesteps}
GaeCoefficients == {0, 1, 2}

VARIABLES
    args,                      \* Args: the configuration read once at start
    pc,                        \* position of main()
    update,                    \* loop variable of the training loop
    i,                         \* loop variable of the spawn loop
    processes,                 \* the list of processes started this iteration
    joined,                    \* how many of them main has joined
    current_model_state_dict,  \* the snapshot taken at the head of the iteration
    workers,                   \* every worker process ever started, by (update, worker_id)
    data_queue,                \* the mp.Queue shared by all iterations
    all_trajectory_data,       \* results gathered this iteration, in arrival order
    batch,                     \* the tensors handed to ppo_update
    model,                     \* the learner's parameters
    rng,                       \* the numpy generator of main
    epoch, start, indices,     \* loop variables of ppo_update
    total_steps,
    episode_rewards, episode_lengths, total_episodes,
    checkpoint,                \* content of the checkpoint file
    num_saves,                 \* number of torch.save calls so far
    num_ppo_updates,           \* number of ppo_update calls so far
    gae_in, gae_out,           \* argument and result of a stand-alone compute_gae call
    sample,                    \* one sampled action with the log_prob recorded for it
    log_probs_new              \* the log-probability ppo_update recomputes for it

vars == <<args, pc, update, i, processes, joined, current_model_state_dict, workers,
          data_queue, all_trajectory_data, batch, model, rng, epoch, start, indices,
          total_steps, episode_rewards, episode_lengths, total_episodes, checkpoint,
          num_saves, num_ppo_updates, gae_in, gae_out,
          sample, log_probs_new>>

\* ------------------------------------------------------------------ helpers
Range(s) == {s[k] : k \in DOMAIN s}

RECURSIVE Flatten(_)
Flatten(ss) == IF ss = <<>> THEN <<>> ELSE Head(ss) \o Flatten(Tail(ss))

Bool2Int(b) == IF b THEN 1 ELSE 0

\* ------------------------------------------------------- compute_gae
\* mutant: the bootstrap value is used whatever last_done says
NextValues_IgnoreLastDone(values, last_value, last_done) == Append(Tail(values), last_value)

NextValues(values, last_value, last_done) ==
    Append(Tail(values), IF ~last_done THEN last_value ELSE 0)

\* mutant: every step is taken as non-terminal
NextNonTerminal_AllOnes(dones) == [t \in DOMAIN dones |-> 1]

NextNonTerminal(dones) == [t \in DOMAIN dones |-> 1 - Bool2Int(dones[t])]

Deltas(rewards, values, dones, last_value, last_done, gamma) ==
    LET next_values == NextValues(values, last_value, last_done)
        next_non_terminal == NextNonTerminal(dones)
    IN  [t \in DOMAIN rewards |->
            rewards[t] + gamma * next_values[t] * next_non_terminal[t] - values[t]]

\* the loop "for t in reversed(range(num_steps))" with its accumulator
RECURSIVE GaeLoop(_, _, _, _, _, _)
GaeLoop(t, last_gae_lam, advantages, deltas, next_non_terminal, coef) ==
    IF t = 0 THEN advantages
    ELSE LET lam == deltas[t] + coef * next_non_terminal[t] * last_gae_lam
         IN  GaeLoop(t - 1, lam, [advantages EXCEPT ![t] = lam], deltas,
                     next_non_terminal, coef)

\* mutant: the recursion discounts by lambda alone
compute_gae_LambdaOnly(rewards, values, dones, last_value, last_done, gamma, gae_lambda) ==
    LET num_steps == Len(rewards)
        deltas == Deltas(rewards, values, dones, last_value, last_done, gamma)
        advantages == GaeLoop(num_steps, 0, [t \in 1..num_steps |-> 0], deltas,
                              NextNonTerminal(dones), gae_lambda)
    IN  [advantages |-> advantages,
         returns |-> [t \in 1..num_steps |-> advantages[t] + values[t]]]

\* mutant: the recursion discounts by gamma alone
compute_gae_GammaOnly(rewards, values, dones, last_value, last_done, gamma, gae_lambda) ==
    LET num_steps == Len(rewards)
        deltas == Deltas(rewards, values, dones, last_value, last_done, gamma)
        advantages == GaeLoop(num_steps, 0, [t \in 1..num_steps |-> 0], deltas,
                              NextNonTerminal(dones), gamma)
    IN  [advantages |-> advantages,
         returns |-> [t \in 1..num_steps |-> advantages[t] + values[t]]]

compute_gae(rewards, values, dones, last_value, last_done, gamma, gae_lambda) ==
    LET num_steps == Len(rewards)
        deltas == Deltas(rewards, values, dones, last_value, last_done, gamma)
        advantages == GaeLoop(num_steps, 0, [t \in 1..num_steps |-> 0], deltas,
                              NextNonTerminal(dones), gamma * gae_lambda)
    IN  [advantages |-> advantages,
         returns |-> [t \in 1..num_steps |-> advantages[t] + values[t]]]


\* ------------------------------------------------------- episode statistics
\* mutant: a full history refuses the new entry
DequeAppend_KeepOldest(q, x) == IF Len(q) >= DequeMaxLen THEN q ELSE Append(q, x)

\* deque(maxlen=100).append
DequeAppend(q, x) == IF Len(q) >= DequeMaxLen THEN Append(Tail(q), x) ELSE Append(q, x)

\* the loop "for reward, done in zip(data["rewards"], data["dones"])"
RECURSIVE ScanLoop(_, _, _, _, _, _)
ScanLoop(t, rewards, dones, current_episode_reward, current_episode_length, stats) ==
    IF t > Len(rewards) \/ t > Len(dones) THEN stats
    ELSE LET r == current_episode_reward + rewards[t]
             l == current_episode_length + 1
         IN  IF dones[t]
             THEN ScanLoop(t + 1, rewards, dones, 0, 0,
                           [episode_rewards |-> DequeAppend(stats.episode_rewards, r),
                            episode_lengths |-> DequeAppend(stats.episode_lengths, l),
                            total_episodes |-> stats.total_episodes + 1])
             ELSE ScanLoop(t + 1, rewards, dones, r, l, stats)

\* mutant: the episode accumulators are not reset between trajectories
RECURSIVE AggregateLoop_NoReset(_, _, _, _, _)
AggregateLoop_NoReset(k, trajectories, gamma, gae_lambda, acc) ==
    IF k > Len(trajectories) THEN acc
    ELSE LET data == trajectories[k]
             gae == compute_gae(data.rewards, data.values, data.dones, data.last_value,
                                data.last_done, gamma, gae_lambda)
         IN  AggregateLoop_NoReset(k + 1, trajectories, gamma, gae_lambda,
                 [batch_advantages_list |-> Append(acc.batch_advantages_list, gae.advantages),
                  batch_returns_list |-> Append(acc.batch_returns_list, gae.returns),
                  batch_obs_list |-> Append(acc.batch_obs_list, data.observations),
                  batch_actions_list |-> Append(acc.batch_actions_list, data.actions),
                  batch_log_probs_list |-> Append(acc.batch_log_probs_list, data.log_probs),
                  stats |-> IF k < Len(trajectories) THEN acc.stats
                            ELSE ScanLoop(1,
                                     Flatten([j \in DOMAIN trajectories |->
                                                 trajectories[j].rewards]),
                                     Flatten([j \in DOMAIN trajectories |->
                                                 trajectories[j].dones]),
                                     0, 0, acc.stats)])

\* the loop "for data in all_trajectory_data": GAE per trajectory, the batch
\* accumulators and the episode statistics, in the order of the list
RECURSIVE AggregateLoop(_, _, _, _, _)
AggregateLoop(k, trajectories, gamma, gae_lambda, acc) ==
    IF k > Len(trajectories) THEN acc
    ELSE LET data == trajectories[k]
             gae == compute_gae(data.rewards, data.values, data.dones, data.last_value,
                                data.last_done, gamma, gae_lambda)
         IN  AggregateLoop(k + 1, trajectories, gamma, gae_lambda,
                 [batch_advantages_list |-> Append(acc.batch_advantages_list, gae.advantages),
                  batch_returns_list |-> Append(acc.batch_returns_list, gae.returns),
                  batch_obs_list |-> Append(acc.batch_obs_list, data.observations),
                  batch_actions_list |-> Append(acc.batch_actions_list, data.actions),
                  batch_log_probs_list |-> Append(acc.batch_log_probs_list, data.log_probs),
                  stats |-> ScanLoop(1, data.rewards, data.dones, 0, 0, acc.stats)])

Aggregated(trajectories, gamma, gae_lambda, stats) ==
    AggregateLoop(1, trajectories, gamma, gae_lambda,
        [batch_advantages_list |-> <<>>, batch_returns_list |-> <<>>,
         batch_obs_list |-> <<>>, batch_actions_list |-> <<>>,
         batch_log_probs_list |-> <<>>, stats |-> stats])

\* np.concatenate of the five accumulators
Concatenated(acc) ==
    [obs |-> Flatten(acc.batch_obs_list),
     actions |-> Flatten(acc.batch_actions_list),
     log_probs_old |-> Flatten(acc.batch_log_probs_list),
     advantages |-> Flatten(acc.batch_advantages_list),
     returns |-> Flatten(acc.batch_returns_list)]

EmptyBatch == [obs |-> <<>>, actions |-> <<>>, log_probs_old |-> <<>>,
               advantages |-> <<>>, returns |-> <<>>]

\* ------------------------------------------------------- ppo_update
\* rng.permutation(n): the permutation of 0..n-1 the generator state selects
RECURSIVE PermFrom(_, _)
PermFrom(state, avail) ==
    IF avail = <<>> THEN <<>>
    ELSE LET n == Len(avail)
             k == (state % n) + 1
             rest == [j \in 1..(n - 1) |-> IF j < k THEN avail[j] ELSE avail[j + 1]]
         IN  <<avail[k]>> \o PermFrom(state \div n, rest)

Permutation(state, n) == PermFrom(state, [j \in 1..n |-> j - 1])

\* mutant: the slice takes one index past its end
Slice_Inclusive(s, from, to) ==
    LET hi == IF to + 1 > Len(s) THEN Len(s) ELSE to + 1
    IN  IF from >= hi THEN <<>> ELSE [j \in 1..(hi - from) |-> s[from + j]]

\* indices[start:end]
Slice(s, from, to) ==
    LET hi == IF to > Len(s) THEN Len(s) ELSE to
    IN  IF from >= hi THEN <<>> ELSE [j \in 1..(hi - from) |-> s[from + j]]

\* the rows of the batch tensors at minibatch_indices
Minibatch(b, minibatch_indices) ==
    {[obs |-> b.obs[j + 1], action |-> b.actions[j + 1],
      log_prob_old |-> b.log_probs_old[j + 1], advantage |-> b.advantages[j + 1],
      return |-> b.returns[j + 1]] : j \in Range(minibatch_indices)}

\* loss.backward(); optimizer.step() on one minibatch
OptimizerStep(params, minibatch) == [params EXCEPT !.steps = Append(@, minibatch)]

\* the passes of "for start in range(0, batch_size, minibatch_size)" from start on
RECURSIVE MinibatchLoop(_, _, _, _, _)
MinibatchLoop(params, b, perm, from, minibatch_size) ==
    IF from >= Len(b.obs) THEN params
    ELSE MinibatchLoop(
             OptimizerStep(params, Minibatch(b, Slice(perm, from, from + minibatch_size))),
             b, perm, from + minibatch_size, minibatch_size)

\* the passes of "for _ in range(num_epochs)" from pass e on
RECURSIVE EpochLoop(_, _, _, _, _, _)
EpochLoop(params, b, generator, e, num_epochs, minibatch_size) ==
    IF e >= num_epochs THEN params
    ELSE EpochLoop(
             MinibatchLoop(params, b, Permutation(generator, Len(b.obs)), 0, minibatch_size),
             b, generator + 1, e + 1, num_epochs, minibatch_size)

\* the parameters ppo_update leaves
ppo_update(params, b, generator, num_epochs, minibatch_size) ==
    EpochLoop(params, b, generator, 0, num_epochs, minibatch_size)

InitialParams == [origin |-> "main", steps |-> <<>>]
FreshParams == [origin |-> "worker", steps |-> <<>>]

\* ------------------------------------------------------- configuration
\* batch_size = args.num_workers * args.steps_per_worker
BatchSize(a) == a.num_workers * a.steps_per_worker

\* mutant: the quotient rounded up
NumUpdates_Ceil(a) ==
    (a.total_timesteps + a.num_workers * a.steps_per_worker - 1)
        \div (a.num_workers * a.steps_per_worker)

\* num_updates = args.total_timesteps // batch_size
NumUpdates(a) == a.total_timesteps \div BatchSize(a)

Configs ==
    {[num_workers |-> nw, steps_per_worker |-> spw, total_timesteps |-> tt,
      num_epochs |-> ne, minibatch_size |-> mb, gamma |-> 1, gae_lambda |-> 1,
      seed |-> DefaultSeed] :
        nw \in 1..MaxWorkers, spw \in 1..MaxSteps, tt \in TotalTimesteps,
        ne \in 1..MaxEpochs, mb \in 1..MaxMinibatch}

NoConfig ==
    [num_workers |-> 1, steps_per_worker |-> 1, total_timesteps |-> 0, num_epochs |-> 1,
     minibatch_size |-> 1, gamma |-> 1, gae_lambda |-> 1, seed |-> DefaultSeed]

NoGaeCall ==
    [rewards |-> <<>>, values |-> <<>>, dones |-> <<>>, last_value |-> 0,
     last_done |-> FALSE, gamma |-> 0, gae_lambda |-> 0]

NoGaeResult == [advantages |-> <<>>, returns |-> <<>>]

NoLogProb == [gaussian |-> [mean |-> 0, log_std |-> 0, x |-> 0], correction |-> 0]

NoSample == [mean |-> 0, log_std |-> 0, y_t |-> 0, action |-> 0, log_prob |-> NoLogProb]

\* ------------------------------------------------------- worker_fn
\* the arguments mp.Process passes to worker_fn, and the process before it runs
NewWorker(worker_id, steps_per_worker, model_state_dict, seed) ==
    [status |-> "start", worker_id |-> worker_id, steps_per_worker |-> steps_per_worker,
     model_state_dict |-> model_state_dict, seed |-> seed, worker_seed |-> 0,
     local_model |-> FreshParams, current_step |-> 0, observations |-> <<>>,
     actions |-> <<>>, log_probs |-> <<>>, rewards |-> <<>>, dones |-> <<>>,
     values |-> <<>>, done |-> FALSE, resets |-> 0, puts |-> 0]

\* what load_state_dict can read: the state dict pickled at p.start(), whose
\* tensors torch.multiprocessing places in shared memory, so either the values
\* at the time of the start or the learner's values at the time of the load
Loadable(w) == {w.model_state_dict, model}

\* mutant: the worker keeps its freshly constructed parameters
Initialized_NoLoad(w, loaded) ==
    [w EXCEPT !.status = "collect",
              !.worker_seed = w.seed + w.worker_id,
              !.resets = 2,
              !.current_step = 0]

\* the worker once its environment is seeded and reset and its model loaded
Initialized(w, loaded) ==
    [w EXCEPT !.status = "collect",
              !.worker_seed = w.seed + w.worker_id,
              !.local_model = loaded,
              !.resets = 2,
              !.current_step = 0]

\* lines 106-137: environment, seeding, private model, first reset
WorkerInit(pid) ==
    /\ pid \in DOMAIN workers
    /\ workers[pid].status = "start"
    /\ \E loaded \in Loadable(workers[pid]) :
          workers' = [workers EXCEPT ![pid] = Initialized(@, loaded)]
    /\ UNCHANGED <<args, pc, update, i, processes, joined, current_model_state_dict,
                   data_queue, all_trajectory_data, batch, model, rng, epoch, start,
                   indices, total_steps, episode_rewards, episode_lengths, total_episodes,
                   checkpoint, num_saves, num_ppo_updates, gae_in, gae_out,
                   sample, log_probs_new>>

\* mutant: a transition that ends an episode is not recorded
Stepped_SkipOnDone(w, reward, done, value) ==
    IF done
    THEN [w EXCEPT !.done = done, !.current_step = @ + 1, !.resets = @ + 1]
    ELSE LET obs == <<w.worker_seed, w.current_step>>
             sampled == [policy |-> w.local_model, obs |-> obs]
         IN  [w EXCEPT !.observations = Append(@, obs),
                       !.actions = Append(@, sampled),
                       !.log_probs = Append(@, sampled),
                       !.rewards = Append(@, reward),
                       !.dones = Append(@, done),
                       !.values = Append(@, value),
                       !.done = done,
                       !.current_step = @ + 1]

\* mutant: the step counter restarts with every episode
Stepped_ResetCounter(w, reward, done, value) ==
    LET obs == <<w.worker_seed, w.current_step>>
        sampled == [policy |-> w.local_model, obs |-> obs]
    IN  [w EXCEPT !.observations = Append(@, obs),
                  !.actions = Append(@, sampled),
                  !.log_probs = Append(@, sampled),
                  !.rewards = Append(@, reward),
                  !.dones = Append(@, done),
                  !.values = Append(@, value),
                  !.done = done,
                  !.current_step = IF done THEN 0 ELSE @ + 1,
                  !.resets = IF done THEN @ + 1 ELSE @]

\* the worker after one pass of "while current_step < steps_per_worker"
Stepped(w, reward, done, value) ==
    LET obs == <<w.worker_seed, w.current_step>>
        sampled == [policy |-> w.local_model, obs |-> obs]
    IN  [w EXCEPT !.observations = Append(@, obs),
                  !.actions = Append(@, sampled),
                  !.log_probs = Append(@, sampled),
                  !.rewards = Append(@, reward),
                  !.dones = Append(@, done),
                  !.values = Append(@, value),
                  !.done = done,
                  !.current_step = @ + 1,
                  !.resets = IF done THEN @ + 1 ELSE @]

\* lines 138-165
WorkerStep(pid) ==
    /\ pid \in DOMAIN workers
    /\ workers[pid].status = "collect"
    /\ workers[pid].current_step < workers[pid].steps_per_worker
    /\ \E reward \in Rewards, terminated \in BOOLEAN, truncated \in BOOLEAN,
          value \in CriticValues :
          workers' = [workers EXCEPT ![pid] =
                          Stepped(@, reward, terminated \/ truncated, value)]
    /\ UNCHANGED <<args, pc, update, i, processes, joined, current_model_state_dict,
                   data_queue, all_trajectory_data, batch, model, rng, epoch, start,
                   indices, total_steps, episode_rewards, episode_lengths, total_episodes,
                   checkpoint, num_saves, num_ppo_updates, gae_in, gae_out,
                   sample, log_probs_new>>

\* lines 172-181
TrajectoryData(w, last_value) ==
    [observations |-> w.observations, actions |-> w.actions, log_probs |-> w.log_probs,
     rewards |-> w.rewards, dones |-> w.dones, values |-> w.values,
     last_value |-> last_value, last_done |-> w.done]

\* lines 167-183: bootstrap value and data_queue.put
WorkerPut(pid) ==
    /\ pid \in DOMAIN workers
    /\ workers[pid].status = "collect"
    /\ ~(workers[pid].current_step < workers[pid].steps_per_worker)
    /\ \E last_value \in CriticValues :
          data_queue' = Append(data_queue, TrajectoryData(workers[pid], last_value))
    /\ workers' = [workers EXCEPT ![pid] = [@ EXCEPT !.status = "close", !.puts = @ + 1]]
    /\ UNCHANGED <<args, pc, update, i, processes, joined, current_model_state_dict,
                   all_trajectory_data, batch, model, rng, epoch, start,
                   indices, total_steps, episode_rewards, episode_lengths, total_episodes,
                   checkpoint, num_saves, num_ppo_updates, gae_in, gae_out,
                   sample, log_probs_new>>

\* lines 184-185: env.close() and the end of the process
WorkerClose(pid) ==
    /\ pid \in DOMAIN workers
    /\ workers[pid].status = "close"
    /\ workers' = [workers EXCEPT ![pid] = [@ EXCEPT !.status = "exited"]]
    /\ UNCHANGED <<args, pc, update, i, processes, joined, current_model_state_dict,
                   data_queue, all_trajectory_data, batch, model, rng, epoch, start,
                   indices, total_steps, episode_rewards, episode_lengths, total_episodes,
                   checkpoint, num_saves, num_ppo_updates, gae_in, gae_out,
                   sample, log_probs_new>>

\* an exception in the scenario, the simulator or the model before the put:
\* the process ends without delivering
WorkerCrash(pid) ==
    /\ pid \in DOMAIN workers
    /\ workers[pid].status \in {"start", "collect"}
    /\ workers' = [workers EXCEPT ![pid] = [@ EXCEPT !.status = "crashed"]]
    /\ UNCHANGED <<args, pc, update, i, processes, joined, current_model_state_dict,
                   data_queue, all_trajectory_data, batch, model, rng, epoch, start,
                   indices, total_steps, episode_rewards, episode_lengths, total_episodes,
                   checkpoint, num_saves, num_ppo_updates, gae_in, gae_out,
                   sample, log_probs_new>>

\* ------------------------------------------------------- main
Init ==
    /\ args \in Configs
    /\ pc = "loop"
    /\ update = 0
    /\ i = 0
    /\ processes = <<>>
    /\ joined = 0
    /\ current_model_state_dict = InitialParams
    /\ workers = <<>>
    /\ data_queue = <<>>
    /\ all_trajectory_data = <<>>
    /\ batch = EmptyBatch
    /\ model = InitialParams
    /\ rng = DefaultSeed
    /\ epoch = 0
    /\ start = 0
    /\ indices = <<>>
    /\ total_steps = 0
    /\ episode_rewards = <<>>
    /\ episode_lengths = <<>>
    /\ total_episodes = 0
    /\ checkpoint = [origin |-> "absent", steps |-> <<>>]
    /\ num_saves = 0
    /\ num_ppo_updates = 0
    /\ gae_in = NoGaeCall
    /\ gae_out = NoGaeResult
    /\ sample = NoSample
    /\ log_probs_new = NoLogProb

\* lines 334-339: the head of "for update in range(1, num_updates + 1)"
LoopHead ==
    /\ pc = "loop"
    /\ IF update < NumUpdates(args)
       THEN /\ update' = update + 1
            /\ processes' = <<>>
            /\ joined' = 0
            /\ i' = 0
            /\ current_model_state_dict' = model
            /\ pc' = "spawn"
       ELSE /\ pc' = "final"
            /\ UNCHANGED <<update, processes, joined, i, current_model_state_dict>>
    /\ UNCHANGED <<args, workers, data_queue, all_trajectory_data, batch, model, rng,
                   epoch, start, indices, total_steps, episode_rewards, episode_lengths,
                   total_episodes, checkpoint, num_saves, num_ppo_updates, gae_in, gae_out,
                   sample, log_probs_new>>

\* the seed argument of worker_fn, line 348
\* mutant: the seed argument advances by one per iteration
SeedArg_NoStride(a, u) == a.seed + u

SeedArg(a, u) == a.seed + u * a.num_workers

\* lines 340-353: one pass of "for i in range(args.num_workers)"
Spawn ==
    /\ pc = "spawn"
    /\ i < args.num_workers
    /\ LET p == <<update, i>>
       IN  /\ workers' = workers @@
                (p :> NewWorker(i, args.steps_per_worker, current_model_state_dict,
                                SeedArg(args, update)))
           /\ processes' = Append(processes, p)
    /\ i' = i + 1
    /\ IF i + 1 < args.num_workers
       THEN UNCHANGED <<pc, all_trajectory_data>>
       ELSE pc' = "gather" /\ all_trajectory_data' = <<>>
    /\ UNCHANGED <<args, update, joined, current_model_state_dict, data_queue, batch,
                   model, rng, epoch, start, indices, total_steps, episode_rewards,
                   episode_lengths, total_episodes, checkpoint, num_saves,
                   num_ppo_updates, gae_in, gae_out,
                   sample, log_probs_new>>

\* mutant: the gather stops at the first result
GatherComplete_First(n) == n >= 1

\* "for _ in range(args.num_workers)" of line 355 has run n times
GatherComplete(n) == n >= args.num_workers

\* mutant: a get that gives up once no worker of the iteration is running
Gather_GivesUp ==
    /\ pc = "gather"
    /\ IF data_queue # <<>>
       THEN /\ all_trajectory_data' = Append(all_trajectory_data, Head(data_queue))
            /\ data_queue' = Tail(data_queue)
            /\ pc' = IF Len(all_trajectory_data) + 1 >= args.num_workers
                     THEN "join" ELSE "gather"
       ELSE /\ \A k \in DOMAIN processes :
                  workers[processes[k]].status \in {"exited", "crashed"}
            /\ pc' = "join"
            /\ UNCHANGED <<all_trajectory_data, data_queue>>
    /\ UNCHANGED <<args, update, i, processes, joined, current_model_state_dict, workers,
                   batch, model, rng, epoch, start, indices, total_steps, episode_rewards,
                   episode_lengths, total_episodes, checkpoint, num_saves,
                   num_ppo_updates, gae_in, gae_out,
                   sample, log_probs_new>>

\* mutant: the result is read and left on the queue
Gather_Peek ==
    /\ pc = "gather"
    /\ data_queue # <<>>
    /\ all_trajectory_data' = Append(all_trajectory_data, Head(data_queue))
    /\ pc' = IF GatherComplete(Len(all_trajectory_data) + 1) THEN "join" ELSE "gather"
    /\ UNCHANGED <<args, update, i, processes, joined, current_model_state_dict, workers,
                   data_queue, batch, model, rng, epoch, start, indices, total_steps,
                   episode_rewards, episode_lengths, total_episodes, checkpoint,
                   num_saves, num_ppo_updates, gae_in, gae_out, sample, log_probs_new>>

\* line 355: one data_queue.get(), which blocks while the queue is empty
Gather ==
    /\ pc = "gather"
    /\ data_queue # <<>>
    /\ all_trajectory_data' = Append(all_trajectory_data, Head(data_queue))
    /\ data_queue' = Tail(data_queue)
    /\ pc' = IF GatherComplete(Len(all_trajectory_data) + 1) THEN "join" ELSE "gather"
    /\ UNCHANGED <<args, update, i, processes, joined, current_model_state_dict, workers,
                   batch, model, rng, epoch, start, indices, total_steps, episode_rewards,
                   episode_lengths, total_episodes, checkpoint, num_saves,
                   num_ppo_updates, gae_in, gae_out,
                   sample, log_probs_new>>

\* mutant: the join does not wait
JoinReturns_NoWait(p) == TRUE

\* p.join() returns once the process has ended
JoinReturns(p) == workers[p].status \in {"exited", "crashed"}

\* lines 356-357: one pass of "for p in processes: p.join()"
Join ==
    /\ pc = "join"
    /\ joined < Len(processes)
    /\ JoinReturns(processes[joined + 1])
    /\ joined' = joined + 1
    /\ pc' = IF joined + 1 < Len(processes) THEN "join" ELSE "aggregate"
    /\ UNCHANGED <<args, update, i, processes, current_model_state_dict, workers,
                   data_queue, all_trajectory_data, batch, model, rng, epoch, start,
                   indices, total_steps, episode_rewards, episode_lengths, total_episodes,
                   checkpoint, num_saves, num_ppo_updates, gae_in, gae_out,
                   sample, log_probs_new>>

\* lines 360-398: GAE, statistics and concatenation
Aggregate ==
    /\ pc = "aggregate"
    /\ \E acc \in {Aggregated(all_trajectory_data, args.gamma, args.gae_lambda,
                                [episode_rewards |-> episode_rewards,
                                 episode_lengths |-> episode_lengths,
                                 total_episodes |-> total_episodes])} :
           /\ batch' = Concatenated(acc)
           /\ episode_rewards' = acc.stats.episode_rewards
           /\ episode_lengths' = acc.stats.episode_lengths
           /\ total_episodes' = acc.stats.total_episodes
    /\ pc' = "ppo_call"
    /\ UNCHANGED <<args, update, i, processes, joined, current_model_state_dict, workers,
                   data_queue, all_trajectory_data, model, rng, epoch, start, indices,
                   total_steps, checkpoint, num_saves, num_ppo_updates, gae_in, gae_out,
                   sample, log_probs_new>>

\* lines 400-401 and 232-235: the call of ppo_update
PPOCall ==
    /\ pc = "ppo_call"
    /\ num_ppo_updates' = num_ppo_updates + 1
    /\ epoch' = 0
    /\ pc' = "ppo_epoch"
    /\ UNCHANGED <<args, update, i, processes, joined, current_model_state_dict, workers,
                   data_queue, all_trajectory_data, batch, model, rng, start, indices,
                   total_steps, episode_rewards, episode_lengths, total_episodes,
                   checkpoint, num_saves, gae_in, gae_out,
                   sample, log_probs_new>>

\* mutant: every call draws from a generator seeded anew
PPOEpoch_Reseeds ==
    /\ pc = "ppo_epoch"
    /\ IF epoch < args.num_epochs
       THEN /\ indices' = Permutation(args.seed + epoch, Len(batch.obs))
            /\ start' = 0
            /\ pc' = "ppo_minibatch"
       ELSE /\ pc' = "report"
            /\ UNCHANGED <<indices, start>>
    /\ UNCHANGED <<args, update, i, processes, joined, current_model_state_dict, workers,
                   data_queue, all_trajectory_data, batch, model, rng, epoch, total_steps,
                   episode_rewards, episode_lengths, total_episodes, checkpoint,
                   num_saves, num_ppo_updates, gae_in, gae_out, sample, log_probs_new>>

\* lines 235-236: the head of "for _ in range(num_epochs)" and the permutation
PPOEpoch ==
    /\ pc = "ppo_epoch"
    /\ IF epoch < args.num_epochs
       THEN /\ indices' = Permutation(rng, Len(batch.obs))
            /\ rng' = rng + 1
            /\ start' = 0
            /\ pc' = "ppo_minibatch"
       ELSE /\ pc' = "report"
            /\ UNCHANGED <<indices, rng, start>>
    /\ UNCHANGED <<args, update, i, processes, joined, current_model_state_dict, workers,
                   data_queue, all_trajectory_data, batch, model, epoch, total_steps,
                   episode_rewards, episode_lengths, total_episodes, checkpoint,
                   num_saves, num_ppo_updates, gae_in, gae_out,
                   sample, log_probs_new>>

\* lines 237-272: one pass of "for start in range(0, batch_size, minibatch_size)"
PPOMinibatch ==
    /\ pc = "ppo_minibatch"
    /\ LET end == start + args.minibatch_size
           minibatch_indices == Slice(indices, start, end)
       IN  /\ model' = OptimizerStep(model, Minibatch(batch, minibatch_indices))
           /\ start' = end
           /\ IF end < Len(batch.obs)
              THEN UNCHANGED <<pc, epoch>>
              ELSE pc' = "ppo_epoch" /\ epoch' = epoch + 1
    /\ UNCHANGED <<args, update, i, processes, joined, current_model_state_dict, workers,
                   data_queue, all_trajectory_data, batch, rng, indices, total_steps,
                   episode_rewards, episode_lengths, total_episodes, checkpoint,
                   num_saves, num_ppo_updates, gae_in, gae_out,
                   sample, log_probs_new>>

\* mutant: the checkpoint is written every tenth iteration and in the first
Report_EveryTen ==
    /\ pc = "report"
    /\ total_steps' = total_steps + BatchSize(args)
    /\ IF update % 10 = 0 \/ update = 1
       THEN checkpoint' = model /\ num_saves' = num_saves + 1
       ELSE UNCHANGED <<checkpoint, num_saves>>
    /\ pc' = "loop"
    /\ UNCHANGED <<args, update, i, processes, joined, current_model_state_dict, workers,
                   data_queue, all_trajectory_data, batch, model, rng, epoch, start,
                   indices, episode_rewards, episode_lengths, total_episodes,
                   num_ppo_updates, gae_in, gae_out,
                   sample, log_probs_new>>

\* lines 418-437: the counters, the log line and the checkpoint of the iteration
Report ==
    /\ pc = "report"
    /\ total_steps' = total_steps + BatchSize(args)
    /\ checkpoint' = model
    /\ num_saves' = num_saves + 1
    /\ pc' = "loop"
    /\ UNCHANGED <<args, update, i, processes, joined, current_model_state_dict, workers,
                   data_queue, all_trajectory_data, batch, model, rng, epoch, start,
                   indices, episode_rewards, episode_lengths, total_episodes,
                   num_ppo_updates, gae_in, gae_out,
                   sample, log_probs_new>>

\* lines 439-443: the save after the loop
FinalSave ==
    /\ pc = "final"
    /\ checkpoint' = model
    /\ num_saves' = num_saves + 1
    /\ pc' = "done"
    /\ UNCHANGED <<args, update, i, processes, joined, current_model_state_dict, workers,
                   data_queue, all_trajectory_data, batch, model, rng, epoch, start,
                   indices, total_steps, episode_rewards, episode_lengths, total_episodes,
                   num_ppo_updates, gae_in, gae_out,
                   sample, log_probs_new>>

Pids == (1..MaxTotalTimesteps) \X (0..(MaxWorkers - 1))

Next ==
    \/ LoopHead
    \/ Spawn
    \/ Gather
    \/ Join
    \/ Aggregate
    \/ PPOCall
    \/ PPOEpoch
    \/ PPOMinibatch
    \/ Report
    \/ FinalSave
    \/ \E p \in Pids : WorkerInit(p)
    \/ \E p \in Pids : WorkerStep(p)
    \/ \E p \in Pids : WorkerPut(p)
    \/ \E p \in Pids : WorkerClose(p)
    \/ \E p \in Pids : WorkerCrash(p)

Spec == Init /\ [][Next]_vars

\* a stand-alone call of compute_gae on a trajectory of bounded length
GaeInputs ==
    UNION {[rewards : [1..T -> Rewards], values : [1..T -> Values],
            dones : [1..T -> BOOLEAN], last_value : Values, last_done : BOOLEAN,
            gamma : GaeCoefficients, gae_lambda : GaeCoefficients] : T \in 1..MaxT}

GaeInit ==
    /\ args = NoConfig
    /\ pc = "gae_call"
    /\ update = 0
    /\ i = 0
    /\ processes = <<>>
    /\ joined = 0
    /\ current_model_state_dict = InitialParams
    /\ workers = <<>>
    /\ data_queue = <<>>
    /\ all_trajectory_data = <<>>
    /\ batch = EmptyBatch
    /\ model = InitialParams
    /\ rng = DefaultSeed
    /\ epoch = 0
    /\ start = 0
    /\ indices = <<>>
    /\ total_steps = 0
    /\ episode_rewards = <<>>
    /\ episode_lengths = <<>>
    /\ total_episodes = 0
    /\ checkpoint = [origin |-> "absent", steps |-> <<>>]
    /\ num_saves = 0
    /\ num_ppo_updates = 0
    /\ gae_in \in GaeInputs
    /\ gae_out = NoGaeResult
    /\ sample = NoSample
    /\ log_probs_new = NoLogProb

\* lines 189-211
GaeCall ==
    /\ pc = "gae_call"
    /\ gae_out' = compute_gae(gae_in.rewards, gae_in.values, gae_in.dones,
                               gae_in.last_value, gae_in.last_done, gae_in.gamma,
                               gae_in.gae_lambda)
    /\ pc' = "gae_done"
    /\ UNCHANGED <<args, update, i, processes, joined, current_model_state_dict, workers,
                   data_queue, all_trajectory_data, batch, model, rng, epoch, start,
                   indices, total_steps, episode_rewards, episode_lengths, total_episodes,
                   checkpoint, num_saves, num_ppo_updates, gae_in,
                   sample, log_probs_new>>

GaeNext == GaeCall

SpecGAE == GaeInit /\ [][GaeNext]_vars

\* the same program when no worker fails, under the scheduling of the
\* operating system: every process that can take a step eventually takes it
NextNoFailure ==
    \/ LoopHead
    \/ Spawn
    \/ Gather
    \/ Join
    \/ Aggregate
    \/ PPOCall
    \/ PPOEpoch
    \/ PPOMinibatch
    \/ Report
    \/ FinalSave
    \/ \E p \in Pids : WorkerInit(p)
    \/ \E p \in Pids : WorkerStep(p)
    \/ \E p \in Pids : WorkerPut(p)
    \/ \E p \in Pids : WorkerClose(p)

FairSpec == Init /\ [][NextNoFailure]_vars /\ WF_vars(NextNoFailure)

\* ------------------------------------------------------- properties
Started(p) == p \in DOMAIN workers

\* the worker processes of the current iteration
CurrentPids == {<<update, w>> : w \in 0..(args.num_workers - 1)}

Count(dones) == Cardinality({t \in DOMAIN dones : dones[t]})

InUpdate == pc \in {"aggregate", "ppo_call", "ppo_epoch", "ppo_minibatch"}

\* C1: main reaches the join only with exactly num_workers trajectories taken
\* from the channel, and reaches GAE and the PPO update of an iteration only
\* when, in addition, every worker of that iteration has delivered and exited.
C1_BarrierBeforeUpdate ==
    /\ pc = "join" => Len(all_trajectory_data) = args.num_workers
    /\ InUpdate =>
          /\ Len(all_trajectory_data) = args.num_workers
          /\ joined = args.num_workers
          /\ \A p \in CurrentPids :
                Started(p) /\ workers[p].puts = 1 /\ workers[p].status = "exited"

C1_Witness ==
    /\ pc = "ppo_minibatch"
    /\ args.num_workers = 2
    /\ update = 2

\* C2: the five tensors handed to ppo_update all have num_workers *
\* steps_per_worker rows, whatever the done flags inside the trajectories.
C2_BatchSize ==
    pc \in {"ppo_call", "ppo_epoch", "ppo_minibatch"} =>
        /\ Len(batch.obs) = args.num_workers * args.steps_per_worker
        /\ Len(batch.actions) = args.num_workers * args.steps_per_worker
        /\ Len(batch.log_probs_old) = args.num_workers * args.steps_per_worker
        /\ Len(batch.advantages) = args.num_workers * args.steps_per_worker
        /\ Len(batch.returns) = args.num_workers * args.steps_per_worker

C2_Witness ==
    /\ pc = "ppo_call"
    /\ args.num_workers = 2
    /\ args.steps_per_worker = 2
    /\ \E k \in DOMAIN all_trajectory_data :
          all_trajectory_data[k].dones[1] /\ ~all_trajectory_data[k].dones[2]

TrajectoryLengths(data) ==
    {Len(data.observations), Len(data.actions), Len(data.log_probs), Len(data.rewards),
     Len(data.dones), Len(data.values)}

\* C3: a worker puts at most one trajectory, has put exactly one when it
\* closes its environment and exits, never collects more than
\* steps_per_worker transitions, resets its environment once per done flag
\* without resetting the step counter, and every trajectory on the channel or
\* gathered by main has exactly steps_per_worker transitions.
C3_OneTrajectoryPerWorker ==
    /\ \A p \in DOMAIN workers :
          LET w == workers[p]
          IN  /\ w.puts <= 1
              /\ w.status \in {"close", "exited"} <=> w.puts = 1
              /\ TrajectoryLengths(w) = {w.current_step}
              /\ w.current_step <= w.steps_per_worker
              /\ w.status \in {"collect", "close", "exited"} =>
                    w.resets = 2 + Count(w.dones)
              /\ w.puts = 1 => w.current_step = w.steps_per_worker
    /\ \A k \in DOMAIN data_queue :
          TrajectoryLengths(data_queue[k]) = {args.steps_per_worker}
    /\ \A k \in DOMAIN all_trajectory_data :
          TrajectoryLengths(all_trajectory_data[k]) = {args.steps_per_worker}
    /\ Len(data_queue) + (IF pc \in {"gather", "join"} \/ InUpdate
                          THEN Len(all_trajectory_data) ELSE 0)
          <= Cardinality({p \in DOMAIN workers : workers[p].puts = 1})

C3_Witness ==
    \E p \in DOMAIN workers :
        /\ workers[p].status = "exited"
        /\ workers[p].steps_per_worker = 2
        /\ workers[p].dones = <<TRUE, FALSE>>
        /\ workers[p].resets = 3

Crashed(p) == Started(p) /\ workers[p].status = "crashed"

\* C4: while a started worker of the iteration has not delivered, main is in
\* the spawn loop or blocked in the gather; a crashed worker stays crashed and
\* undelivered, and from then on no step completes the gather, starts GAE or
\* the PPO update, writes a checkpoint or starts another iteration; once the
\* other workers are done no step is possible at all.
C4_UndeliveredBlocksMain ==
    /\ [](\A p \in CurrentPids :
             (Started(p) /\ workers[p].puts = 0) => pc \in {"spawn", "gather"})
    /\ [][(\E p \in CurrentPids : Crashed(p)) =>
             /\ \A p \in CurrentPids : Crashed(p) => workers'[p] = workers[p]
             /\ pc' \in {"spawn", "gather"}
             /\ Len(all_trajectory_data') < args.num_workers
             /\ update' = update
             /\ num_saves' = num_saves
             /\ checkpoint' = checkpoint
             /\ num_ppo_updates' = num_ppo_updates
             /\ model' = model
             /\ DOMAIN workers' \subseteq DOMAIN workers \cup CurrentPids]_vars
    /\ []((/\ \E p \in CurrentPids : Crashed(p)
           /\ \A p \in CurrentPids :
                 Started(p) /\ workers[p].status \in {"crashed", "exited"}
           /\ data_queue = <<>>)
          => ~ENABLED Next)

C4_Witness ==
    /\ update = 2
    /\ pc = "gather"
    /\ args.num_workers = 2
    /\ Crashed(<<2, 0>>)
    /\ Started(<<2, 1>>) /\ workers[<<2, 1>>].status = "exited"
    /\ Len(all_trajectory_data) = 1
    /\ data_queue = <<>>

\* steps one call of ppo_update takes at most, one worker takes, one iteration takes
PPOCost == args.num_epochs * (1 + BatchSize(args)) + 1
WorkerCost == args.steps_per_worker + 3
IterCost == 1 + 3 * args.num_workers + args.num_workers * WorkerCost + 2 + PPOCost + 1

WorkerLeft(p) ==
    IF ~Started(p) THEN WorkerCost
    ELSE CASE workers[p].status = "start" -> WorkerCost
           [] workers[p].status = "collect" ->
                  args.steps_per_worker - workers[p].current_step + 2
           [] workers[p].status = "close" -> 1
           [] OTHER -> 0

RECURSIVE SumWorkerLeft(_)
SumWorkerLeft(ps) ==
    IF ps = {} THEN 0
    ELSE LET p == CHOOSE q \in ps : TRUE IN WorkerLeft(p) + SumWorkerLeft(ps \ {p})

MainLeft ==
    CASE pc = "spawn" -> (args.num_workers - i) + 2 * args.num_workers + 2 + PPOCost + 1
      [] pc = "gather" ->
             (args.num_workers - Len(all_trajectory_data)) + args.num_workers + 2
                 + PPOCost + 1
      [] pc = "join" -> (args.num_workers - joined) + 2 + PPOCost + 1
      [] pc = "aggregate" -> 2 + PPOCost + 1
      [] pc = "ppo_call" -> 1 + PPOCost + 1
      [] pc = "ppo_epoch" -> (args.num_epochs - epoch) * (1 + BatchSize(args)) + 2
      [] pc = "ppo_minibatch" ->
             (BatchSize(args) - start)
                 + (args.num_epochs - epoch - 1) * (1 + BatchSize(args)) + 2
      [] pc = "report" -> 1
      [] OTHER -> 0

\* an upper bound of the number of steps the run still takes
StepsLeft ==
    CASE pc = "done" -> 0
      [] pc = "final" -> 1
      [] pc = "loop" -> (NumUpdates(args) - update) * IterCost + 2
      [] OTHER -> (NumUpdates(args) - update) * IterCost + 2 + MainLeft
                      + SumWorkerLeft(CurrentPids)

\* C5: without worker failure the run ends under fair scheduling: some step
\* is possible until main is done and every step lowers a bound of the steps
\* left; at the end the number n of ppo_update calls is the integer quotient
\* of total_timesteps by num_workers * steps_per_worker, the loop variable is
\* n and total_steps is n * num_workers * steps_per_worker; total_steps never
\* exceeds total_timesteps and ppo_update is called once per iteration.
C5_Termination ==
    /\ [](pc = "done" \/ ENABLED NextNoFailure)
    /\ [](StepsLeft >= 0)
    /\ [][StepsLeft' < StepsLeft]_vars
    /\ [](total_steps <= args.total_timesteps)
    /\ [](num_ppo_updates = IF pc \in {"ppo_epoch", "ppo_minibatch", "report", "loop",
                                      "final", "done"}
                            THEN update ELSE update - 1)
    /\ [](pc = "done" =>
            LET n == num_ppo_updates
                b == args.num_workers * args.steps_per_worker
            IN  /\ n * b <= args.total_timesteps
                /\ args.total_timesteps < (n + 1) * b
                /\ update = n
                /\ total_steps = n * b)

C5_Witness ==
    /\ pc = "done"
    /\ args.num_workers = 2
    /\ num_ppo_updates = 1
    /\ total_steps = 2
    /\ args.total_timesteps = 3

Alive(p) == Started(p) /\ workers[p].status \in {"start", "collect", "close"}

\* C6: every worker process of an earlier iteration has delivered once and
\* exited, so the live worker processes all belong to the current iteration
\* and number at most num_workers.
C6_NoWorkerAcrossIterations ==
    /\ \A p \in DOMAIN workers :
          p[1] < update => workers[p].status = "exited" /\ workers[p].puts = 1
    /\ \A p \in DOMAIN workers : Alive(p) => p \in CurrentPids
    /\ Cardinality({p \in DOMAIN workers : Alive(p)}) <= args.num_workers
    /\ pc = "loop" => \A p \in DOMAIN workers : workers[p].status = "exited"

C6_Witness ==
    /\ update = 2
    /\ pc = "spawn"
    /\ i = 1
    /\ Alive(<<2, 0>>)
    /\ workers[<<1, 0>>].status = "exited"
    /\ workers[<<1, 1>>].status = "exited"

Policies(data) == {data.actions[t].policy : t \in DOMAIN data.actions}

\* C7: the learner's parameters change only in an optimizer step of main;
\* from the snapshot of an iteration until its workers are joined they equal
\* the snapshot, which is the initial parameters in iteration 1 and the
\* parameters checkpointed after the previous update later; every worker of
\* the iteration that has loaded its model holds the snapshot and samples
\* every action of its trajectory under it.
C7_FrozenParametersDuringRollout ==
    /\ [][model' # model => pc = "ppo_minibatch"]_vars
    /\ [](pc \in {"spawn", "gather", "join", "aggregate"} =>
            /\ model = current_model_state_dict
            /\ update = 1 => current_model_state_dict = InitialParams
            /\ update > 1 => current_model_state_dict = checkpoint)
    /\ [](\A p \in CurrentPids :
            (Started(p) /\ workers[p].status \in {"collect", "close", "exited"}) =>
                /\ workers[p].local_model = current_model_state_dict
                /\ Policies(workers[p]) \subseteq {current_model_state_dict})
    /\ [](\A k \in DOMAIN data_queue :
            Policies(data_queue[k]) \subseteq {current_model_state_dict})
    /\ [](pc \in {"gather", "join", "aggregate"} =>
            \A k \in DOMAIN all_trajectory_data :
                Policies(all_trajectory_data[k]) \subseteq {current_model_state_dict})

C7_Witness ==
    /\ update = 2
    /\ pc = "gather"
    /\ model.steps # <<>>
    /\ Started(<<2, 1>>)
    /\ workers[<<2, 1>>].status = "collect"
    /\ workers[<<2, 1>>].current_step = 1
    /\ workers[<<2, 1>>].local_model = model

\* every order in which the trajectories of a list can arrive
Orders(trajectories) ==
    {[k \in DOMAIN trajectories |-> trajectories[f[k]]] :
        f \in Permutations(DOMAIN trajectories)}

CurrentStats ==
    [episode_rewards |-> episode_rewards, episode_lengths |-> episode_lengths,
     total_episodes |-> total_episodes]

\* the batch rows as pairs of a sample and its advantage and return
Rows(b) == {<<b.obs[j], b.advantages[j], b.returns[j]>> : j \in DOMAIN b.obs}

\* the history as a multiset of (episode reward, episode length) entries
HistoryBag(rewards, lengths) ==
    LET entries == {<<rewards[k], lengths[k]>> : k \in DOMAIN rewards}
    IN  [e \in entries |->
            Cardinality({k \in DOMAIN rewards : <<rewards[k], lengths[k]>> = e})]

DoneCount(trajectories) ==
    Cardinality({<<k, t>> \in (DOMAIN trajectories) \X (1..MaxSteps) :
                    t \in DOMAIN trajectories[k].dones /\ trajectories[k].dones[t]})

SpawnOrder(trajectories) ==
    CHOOSE o \in Orders(trajectories) :
        \A a, b \in DOMAIN o :
            a < b => o[a].observations[1][1] <= o[b].observations[1][1]

\* C9: the parameters an iteration's update leaves are those of the run in
\* which the trajectories arrive in the order of their workers: with the same
\* seed and the same trajectories, the arrival order does not change them.
C9_Determinism ==
    pc = "report" =>
        model = ppo_update(current_model_state_dict,
                    Concatenated(Aggregated(SpawnOrder(all_trajectory_data), args.gamma,
                                            args.gae_lambda, CurrentStats)),
                    rng - args.num_epochs, args.num_epochs, args.minibatch_size)

\* C10: for a trajectory of length T >= 1 compute_gae returns the advantages
\* A[T] = delta[T], A[t] = delta[t] + gamma * lambda * (1 - dones[t]) * A[t+1]
\* with delta[t] = rewards[t] + gamma * next[t] * (1 - dones[t]) - values[t],
\* next[t] = values[t+1] below T and next[T] = last_value unless last_done,
\* then 0, and the returns A[t] + values[t] (steps counted from 1).
C10_GaeRecursion ==
    pc = "gae_done" =>
        LET T == Len(gae_in.rewards)
            g == gae_in.gamma
            l == gae_in.gae_lambda
            nonterminal(t) == IF gae_in.dones[t] THEN 0 ELSE 1
            next(t) == IF t < T THEN gae_in.values[t + 1]
                       ELSE IF gae_in.last_done THEN 0 ELSE gae_in.last_value
            delta(t) == gae_in.rewards[t] + g * next(t) * nonterminal(t) - gae_in.values[t]
            A[t \in 1..T] == IF t = T THEN delta(T)
                             ELSE delta(t) + g * l * nonterminal(t) * A[t + 1]
        IN  /\ DOMAIN gae_out.advantages = 1..T
            /\ DOMAIN gae_out.returns = 1..T
            /\ \A t \in 1..T :
                  /\ gae_out.advantages[t] = A[t]
                  /\ gae_out.returns[t] = A[t] + gae_in.values[t]

C10_Witness ==
    /\ pc = "gae_done"
    /\ Len(gae_in.rewards) = 3
    /\ gae_in.dones = <<FALSE, TRUE, FALSE>>
    /\ gae_in.last_done
    /\ gae_in.last_value = 1
    /\ gae_in.gamma = 2
    /\ gae_in.gae_lambda = 2
    /\ gae_out.advantages[1] # gae_out.advantages[3]

\* a stand-alone call of ppo_update: a batch of n distinct samples, any
\* minibatch size, any state of the generator
PPOBatch(n) ==
    [obs |-> [j \in 1..n |-> <<DefaultSeed, j - 1>>],
     actions |-> [j \in 1..n |-> [policy |-> InitialParams, obs |-> <<DefaultSeed, j - 1>>]],
     log_probs_old |-> [j \in 1..n |->
                           [policy |-> InitialParams, obs |-> <<DefaultSeed, j - 1>>]],
     advantages |-> [j \in 1..n |-> j % 2],
     returns |-> [j \in 1..n |-> 1]]

PPOConfigs ==
    {[num_workers |-> 1, steps_per_worker |-> n, total_timesteps |-> n,
      num_epochs |-> ne, minibatch_size |-> mb, gamma |-> 1, gae_lambda |-> 1,
      seed |-> DefaultSeed] :
        n \in 1..MaxBatch, ne \in 1..MaxEpochs, mb \in 1..MaxBatch}

PPOInit ==
    /\ args \in PPOConfigs
    /\ pc = "ppo_call"
    /\ update = 1
    /\ i = 0
    /\ processes = <<>>
    /\ joined = 0
    /\ current_model_state_dict = InitialParams
    /\ workers = <<>>
    /\ data_queue = <<>>
    /\ all_trajectory_data = <<>>
    /\ batch = PPOBatch(args.steps_per_worker)
    /\ model = InitialParams
    /\ rng \in 0..MaxGenerator
    /\ epoch = 0
    /\ start = 0
    /\ indices = <<>>
    /\ total_steps = 0
    /\ episode_rewards = <<>>
    /\ episode_lengths = <<>>
    /\ total_episodes = 0
    /\ checkpoint = [origin |-> "absent", steps |-> <<>>]
    /\ num_saves = 0
    /\ num_ppo_updates = 0
    /\ gae_in = NoGaeCall
    /\ gae_out = NoGaeResult
    /\ sample = NoSample
    /\ log_probs_new = NoLogProb

PPONext ==
    \/ PPOCall
    \/ PPOEpoch
    \/ PPOMinibatch

SpecPPO == PPOInit /\ [][PPONext]_vars

\* row j (from 1) of the batch tensors
BatchRow(j) ==
    [obs |-> batch.obs[j], action |-> batch.actions[j],
     log_prob_old |-> batch.log_probs_old[j], advantage |-> batch.advantages[j],
     return |-> batch.returns[j]]

\* ceil(batch_size / minibatch_size)
StepsPerEpoch == (Len(batch.obs) + args.minibatch_size - 1) \div args.minibatch_size

\* the k-th minibatch (from 1) of epoch e (from 0) of the call
EpochMinibatch(e, k) == model.steps[e * StepsPerEpoch + k]

\* C13: between the epochs of a call of ppo_update, every completed epoch has
\* taken ceil(batch_size / minibatch_size) optimizer steps, every sample of the
\* batch is in exactly one minibatch of the epoch, and every minibatch has
\* minibatch_size samples but the last, which has between 1 and minibatch_size.
C13_MinibatchCoverage ==
    pc \in {"ppo_epoch", "report"} =>
        /\ Len(model.steps) = epoch * StepsPerEpoch
        /\ \A e \in 0..(epoch - 1) :
            /\ \A j \in 1..Len(batch.obs) :
                   Cardinality({k \in 1..StepsPerEpoch :
                                   BatchRow(j) \in EpochMinibatch(e, k)}) = 1
            /\ \A k \in 1..StepsPerEpoch :
                /\ EpochMinibatch(e, k) \subseteq {BatchRow(j) : j \in 1..Len(batch.obs)}
                /\ Cardinality(EpochMinibatch(e, k)) >= 1
                /\ Cardinality(EpochMinibatch(e, k)) <= args.minibatch_size
                /\ k < StepsPerEpoch =>
                       Cardinality(EpochMinibatch(e, k)) = args.minibatch_size

C13_Witness ==
    /\ pc = "report"
    /\ Len(batch.obs) = 3
    /\ args.minibatch_size = 2
    /\ epoch = 2
    /\ Len(model.steps) = 4
    /\ model.steps[1] = {BatchRow(3), BatchRow(1)}
    /\ model.steps[2] = {BatchRow(2)}
    /\ model.steps[4] # model.steps[2]

\* C11: with gamma = 0 the advantage compute_gae returns at every step is
\* rewards[t] - values[t], whatever lambda, the done flags, last_value and
\* last_done are.
C11_GammaZero ==
    (pc = "gae_done" /\ gae_in.gamma = 0) =>
        \A t \in DOMAIN gae_in.rewards :
            gae_out.advantages[t] = gae_in.rewards[t] - gae_in.values[t]

C11_Witness ==
    /\ pc = "gae_done"
    /\ gae_in.gamma = 0
    /\ gae_in.gae_lambda = 2
    /\ gae_in.rewards = <<1, 0, 1>>
    /\ gae_in.values = <<0, 1, 0>>
    /\ gae_in.dones = <<FALSE, FALSE, FALSE>>
    /\ gae_in.last_value = 1
    /\ ~gae_in.last_done
    /\ gae_out.advantages = <<1, -1, 1>>

\* C12: with lambda = 0 the advantage compute_gae returns at every step is
\* the one-step residual rewards[t] + gamma * next[t] * (1 - dones[t]) -
\* values[t], next[t] being values[t+1] below the last step and, at the last
\* step, last_value unless last_done, then 0.
C12_LambdaZero ==
    (pc = "gae_done" /\ gae_in.gae_lambda = 0) =>
        LET T == Len(gae_in.rewards)
            next(t) == IF t < T THEN gae_in.values[t + 1]
                       ELSE IF gae_in.last_done THEN 0 ELSE gae_in.last_value
        IN  \A t \in 1..T :
                gae_out.advantages[t] =
                    gae_in.rewards[t]
                        + gae_in.gamma * next(t) * (IF gae_in.dones[t] THEN 0 ELSE 1)
                        - gae_in.values[t]

C12_Witness ==
    /\ pc = "gae_done"
    /\ gae_in.gae_lambda = 0
    /\ gae_in.gamma = 2
    /\ gae_in.rewards = <<1, 1, 1>>
    /\ gae_in.values = <<0, 1, 1>>
    /\ gae_in.dones = <<FALSE, TRUE, FALSE>>
    /\ gae_in.last_value = 1
    /\ ~gae_in.last_done
    /\ gae_out.advantages = <<3, 0, 2>>

\* the aggregation of one iteration, entered with the statistics that earlier
\* iterations can have left: an empty history, or one at or just below its
\* maximal length
StatsTrajectory(k, T, reward, dones) ==
    [observations |-> [t \in 1..T |-> <<DefaultSeed + k, t - 1>>],
     actions |-> [t \in 1..T |-> [policy |-> InitialParams, obs |-> <<DefaultSeed + k, t - 1>>]],
     log_probs |-> [t \in 1..T |->
                       [policy |-> InitialParams, obs |-> <<DefaultSeed + k, t - 1>>]],
     rewards |-> [t \in 1..T |-> reward],
     dones |-> dones,
     values |-> [t \in 1..T |-> 1],
     last_value |-> 1,
     last_done |-> dones[T]]

StatsTrajectories(a) ==
    {[k \in 1..a.num_workers |->
         StatsTrajectory(k - 1, a.steps_per_worker, f[k].reward, f[k].dones)] :
        f \in [1..a.num_workers ->
                  [reward : Rewards, dones : [1..a.steps_per_worker -> BOOLEAN]]]}

StatsHistories(a) ==
    {[episode_rewards |-> [j \in 1..h |-> (j + o) % 2],
      episode_lengths |-> [j \in 1..h |-> 1 + ((j + o) % a.steps_per_worker)],
      total_episodes |-> h + dropped] :
        h \in {0, DequeMaxLen - 2, DequeMaxLen - 1, DequeMaxLen},
        o \in {0, 1},
        dropped \in {0}} \cup
    {[episode_rewards |-> [j \in 1..DequeMaxLen |-> (j + o) % 2],
      episode_lengths |-> [j \in 1..DequeMaxLen |-> 1 + ((j + o) % a.steps_per_worker)],
      total_episodes |-> DequeMaxLen + 1] : o \in {0, 1}}

\* the configurations that differ in what the aggregation reads
StatsConfigs ==
    {c \in Configs : /\ c.total_timesteps = MaxTotalTimesteps
                     /\ c.num_epochs = 1
                     /\ c.minibatch_size = 1}

StatsInit ==
    /\ args \in StatsConfigs
    /\ pc = "aggregate"
    /\ update = 1
    /\ i = args.num_workers
    /\ processes = <<>>
    /\ joined = args.num_workers
    /\ current_model_state_dict = InitialParams
    /\ workers = <<>>
    /\ data_queue = <<>>
    /\ all_trajectory_data \in StatsTrajectories(args)
    /\ batch = EmptyBatch
    /\ model = InitialParams
    /\ rng = DefaultSeed
    /\ epoch = 0
    /\ start = 0
    /\ indices = <<>>
    /\ total_steps = 0
    /\ \E h \in StatsHistories(args) :
           /\ episode_rewards = h.episode_rewards
           /\ episode_lengths = h.episode_lengths
           /\ total_episodes = h.total_episodes
    /\ checkpoint = [origin |-> "absent", steps |-> <<>>]
    /\ num_saves = 0
    /\ num_ppo_updates = 0
    /\ gae_in = NoGaeCall
    /\ gae_out = NoGaeResult
    /\ sample = NoSample
    /\ log_probs_new = NoLogProb

StatsNext == Aggregate

SpecStats == StatsInit /\ [][StatsNext]_vars

\* the steps of trajectory d at which an episode ended, in increasing order
EpisodeEnds(d) ==
    LET ends == {t \in DOMAIN d.dones : d.dones[t]}
    IN  [n \in 1..Cardinality(ends) |->
            CHOOSE t \in ends : Cardinality({u \in ends : u <= t}) = n]

\* the reward and the length of the episode of trajectory d that ended at step
\* t: the steps after the previous end in d, or from the start of d
EpisodeSteps(d, t) == {u \in 1..t : \A v \in u..(t - 1) : ~d.dones[v]}

RECURSIVE SumRewards(_, _)
SumRewards(d, steps) ==
    IF steps = {} THEN 0
    ELSE LET u == CHOOSE x \in steps : TRUE
         IN  d.rewards[u] + SumRewards(d, steps \ {u})

\* the episodes completed in a list of trajectories, in the order of recording
CompletedEpisodes(trajectories) ==
    Flatten([k \in DOMAIN trajectories |->
                [n \in DOMAIN EpisodeEnds(trajectories[k]) |->
                    LET d == trajectories[k]
                        t == EpisodeEnds(d)[n]
                    IN  [reward |-> SumRewards(d, EpisodeSteps(d, t)),
                         length |-> Cardinality(EpisodeSteps(d, t))]]])

\* the last n entries of s
LastN(s, n) == IF Len(s) <= n THEN s ELSE SubSeq(s, Len(s) - n + 1, Len(s))

\* C14: an aggregation step leaves in the two histories the same number of
\* entries, at most 100, which are the most recently completed episodes (the
\* earlier history followed by the episodes completed in the trajectories of
\* the iteration, cut to its last 100), and raises total_episodes by the number
\* of true done flags in the trajectories it consumed.
C14_EpisodeStatistics ==
    [][pc = "aggregate" /\ pc' # "aggregate" =>
          LET new == CompletedEpisodes(all_trajectory_data)
          IN  /\ Len(episode_rewards') = Len(episode_lengths')
              /\ Len(episode_rewards') <= 100
              /\ episode_rewards' =
                     LastN(episode_rewards \o [n \in DOMAIN new |-> new[n].reward], 100)
              /\ episode_lengths' =
                     LastN(episode_lengths \o [n \in DOMAIN new |-> new[n].length], 100)
              /\ total_episodes' = total_episodes + DoneCount(all_trajectory_data)]_vars

C14_Witness ==
    /\ pc = "ppo_call"
    /\ Len(episode_rewards) = 100
    /\ total_episodes = 102
    /\ DoneCount(all_trajectory_data) = 3
    /\ episode_lengths[98] = 2
    /\ episode_rewards[98] = 2
    /\ episode_lengths[99] = 1
    /\ episode_rewards[100] = 0

\* the optimizer steps of one complete call of ppo_update
StepsPerUpdate(a) ==
    a.num_epochs * ((BatchSize(a) + a.minibatch_size - 1) \div a.minibatch_size)

Seeded == {p \in DOMAIN workers : workers[p].resets > 0}

\* C16: the environment of worker i of iteration u is seeded with
\* seed + u * num_workers + i, and no two workers of the run, of the same or of
\* different iterations, seed their environments alike.
C16_WorkerSeeds ==
    /\ \A p \in Seeded :
        /\ p[1] >= 1
        /\ p[2] \in 0..(args.num_workers - 1)
        /\ workers[p].worker_seed = args.seed + p[1] * args.num_workers + p[2]
    /\ \A p, q \in Seeded : p # q => workers[p].worker_seed # workers[q].worker_seed

C16_Witness ==
    /\ args.num_workers = 2
    /\ {<<1, 0>>, <<1, 1>>, <<2, 0>>} \subseteq Seeded
    /\ workers[<<1, 0>>].worker_seed = 6
    /\ workers[<<1, 1>>].worker_seed = 7
    /\ workers[<<2, 0>>].worker_seed = 8

\* ------------------------------------------------- log-probabilities
\* Fixed-point arithmetic: tanh(x_t) on a grid of thousandths, the argument of
\* the logarithm of the squash correction in millionths. In single precision
\* tanh saturates, so y_t ranges over the closed interval, both ends included.
Milli == 1000
Micro == Milli * Milli

LOG_STD_MAX == 2
LOG_STD_MIN == -5
\* EPSILON = 1e-5, and the 1e-6 of the sampling path, in millionths
EPSILON == 10
SamplingEpsilon == 1

\* action_space = spaces.Box(low=-1, high=1, shape=(2,)) and the two buffers
ActionLow == -1
ActionHigh == 1
action_scale == (ActionHigh - ActionLow) \div 2
action_bias == (ActionHigh + ActionLow) \div 2

Means == {0, 1}

\* torch.clamp
Clamp(v, lo, hi) == IF v < lo THEN lo ELSE IF v > hi THEN hi ELSE v

\* A log-probability, per action dimension, is kept as the pair of its two
\* terms: the Gaussian term by the distribution and the point it is taken at
\* (the point by its image under tanh, in millionths), the correction by the
\* argument of its logarithm (in millionths).
\* worker_fn: action = y_t * action_scale + action_bias, in thousandths
SampledAction(y_t) == y_t * action_scale + action_bias * Milli

\* worker_fn: normal.log_prob(x_t) - log(action_scale * (1 - y_t^2) + 1e-6)
SampledLogProb(mean, log_std, y_t) ==
    [gaussian |-> [mean |-> mean, log_std |-> log_std, x |-> y_t * Milli],
     correction |-> action_scale * (Micro - y_t * y_t) + SamplingEpsilon]

\* ppo_update: normal.log_prob(atanh(clamp(a, -1 + EPSILON, 1 - EPSILON)))
\*             - log(1 - a^2 + EPSILON)
RecomputedLogProb(mean, log_std, mb_action) ==
    [gaussian |-> [mean |-> mean, log_std |-> log_std,
                   x |-> Clamp(mb_action * Milli, -Micro + EPSILON, Micro - EPSILON)],
     correction |-> (Micro - mb_action * mb_action) + EPSILON]

LogProbInit ==
    /\ args = NoConfig
    /\ pc = "sample"
    /\ update = 0
    /\ i = 0
    /\ processes = <<>>
    /\ joined = 0
    /\ current_model_state_dict = InitialParams
    /\ workers = <<>>
    /\ data_queue = <<>>
    /\ all_trajectory_data = <<>>
    /\ batch = EmptyBatch
    /\ model = InitialParams
    /\ rng = DefaultSeed
    /\ epoch = 0
    /\ start = 0
    /\ indices = <<>>
    /\ total_steps = 0
    /\ episode_rewards = <<>>
    /\ episode_lengths = <<>>
    /\ total_episodes = 0
    /\ checkpoint = [origin |-> "absent", steps |-> <<>>]
    /\ num_saves = 0
    /\ num_ppo_updates = 0
    /\ gae_in = NoGaeCall
    /\ gae_out = NoGaeResult
    /\ sample = NoSample
    /\ log_probs_new = NoLogProb

\* lines 142-149: one action sampled and its log-probability recorded
SampleAction ==
    /\ pc = "sample"
    /\ \E mean \in Means, log_std \in LOG_STD_MIN..LOG_STD_MAX, y_t \in (-Milli)..Milli :
           sample' = [mean |-> mean, log_std |-> log_std, y_t |-> y_t,
                      action |-> SampledAction(y_t),
                      log_prob |-> SampledLogProb(mean, log_std, y_t)]
    /\ pc' = "recompute"
    /\ UNCHANGED <<args, update, i, processes, joined, current_model_state_dict, workers,
                   data_queue, all_trajectory_data, batch, model, rng, epoch, start,
                   indices, total_steps, episode_rewards, episode_lengths, total_episodes,
                   checkpoint, num_saves, num_ppo_updates, gae_in, gae_out,
                   log_probs_new>>

\* lines 247-255: the same action under the same parameters in ppo_update
Recompute ==
    /\ pc = "recompute"
    /\ log_probs_new' = RecomputedLogProb(sample.mean, sample.log_std, sample.action)
    /\ pc' = "recomputed"
    /\ UNCHANGED <<args, update, i, processes, joined, current_model_state_dict, workers,
                   data_queue, all_trajectory_data, batch, model, rng, epoch, start,
                   indices, total_steps, episode_rewards, episode_lengths, total_episodes,
                   checkpoint, num_saves, num_ppo_updates, gae_in, gae_out, sample>>

LogProbNext ==
    \/ SampleAction
    \/ Recompute

SpecLogProb == LogProbInit /\ [][LogProbNext]_vars

\* two log-probabilities agree within a tolerance of one part in a thousand:
\* the same Gaussian term, and correction arguments whose ratio is within
\* 1/1000 of 1
WithinTolerance(p, q) ==
    /\ p.gaussian = q.gaussian
    /\ (IF p.correction >= q.correction THEN p.correction - q.correction
        ELSE q.correction - p.correction) * Milli
           <= (IF p.correction >= q.correction THEN q.correction ELSE p.correction)

\* C17 as stated: the log-probability ppo_update recomputes for a sampled
\* action under unchanged parameters equals, within tolerance, the one the
\* worker recorded for it.
C17_SquashCorrectionIdentity ==
    pc = "recomputed" => WithinTolerance(log_probs_new, sample.log_prob)

\* the trajectories put so far and not yet replaced by those of a later iteration
Emitted == Range(data_queue) \cup Range(all_trajectory_data)

\* C18: the last_done of every trajectory a worker emits is the done flag of
\* its last collected step, and in the batch built from the gathered
\* trajectories the advantage of every step whose done flag is true is
\* rewards[t] - values[t]: neither the value of the next step, nor later
\* rewards, nor last_value enter it.
C18_NoBootstrapAcrossEpisodes ==
    /\ \A data \in Emitted :
           /\ Len(data.dones) = args.steps_per_worker
           /\ data.last_done = data.dones[Len(data.dones)]
    /\ pc \in {"ppo_call", "ppo_epoch", "ppo_minibatch", "report"} =>
           \A k \in DOMAIN all_trajectory_data :
               \A t \in DOMAIN all_trajectory_data[k].dones :
                   all_trajectory_data[k].dones[t] =>
                       batch.advantages[(k - 1) * args.steps_per_worker + t] =
                           all_trajectory_data[k].rewards[t]
                               - all_trajectory_data[k].values[t]

C18_Witness ==
    /\ pc = "ppo_call"
    /\ args.num_workers = 1
    /\ args.steps_per_worker = 2
    /\ all_trajectory_data[1].dones = <<TRUE, FALSE>>
    /\ all_trajectory_data[1].rewards = <<1, 1>>
    /\ all_trajectory_data[1].values = <<1, 1>>
    /\ all_trajectory_data[1].last_value = 1
    /\ ~all_trajectory_data[1].last_done
    /\ batch.advantages = <<0, 1>>

\* the environment seed of the worker that collected a trajectory
TrajSeed(data) == data.observations[1][1]

\* the environment seeds of the workers of the current iteration
CurrentSeeds == {SeedArg(args, update) + w : w \in 0..(args.num_workers - 1)}

\* C19: the queue is empty whenever main is neither spawning nor gathering, in
\* particular at every iteration boundary; whatever is on the queue or has
\* been gathered in an iteration was collected by a worker of that iteration
\* under its snapshot; no trajectory is there twice; none is lost (as many are
\* on the queue or gathered as workers of the iteration have put); and the
\* list main goes on with holds one trajectory of each worker of the iteration.
C19_QueueIsolation ==
    /\ pc \notin {"spawn", "gather"} => data_queue = <<>>
    /\ \A n \in DOMAIN data_queue : TrajSeed(data_queue[n]) \in CurrentSeeds
    /\ pc \notin {"loop", "spawn", "final", "done"} =>
           LET seq == all_trajectory_data \o data_queue
           IN  /\ \A n \in DOMAIN seq :
                      /\ TrajSeed(seq[n]) \in CurrentSeeds
                      /\ \A t \in DOMAIN seq[n].actions :
                             seq[n].actions[t].policy = current_model_state_dict
               /\ \A m, n \in DOMAIN seq : m # n => TrajSeed(seq[m]) # TrajSeed(seq[n])
               /\ Len(seq) = Cardinality({p \in CurrentPids :
                                             Started(p) /\ workers[p].puts = 1})
    /\ pc \in {"join", "aggregate", "ppo_call", "ppo_epoch", "ppo_minibatch", "report"} =>
           {TrajSeed(all_trajectory_data[n]) : n \in DOMAIN all_trajectory_data}
               = CurrentSeeds
    /\ \A p \in DOMAIN workers : workers[p].puts <= 1

C19_Witness ==
    /\ pc = "loop"
    /\ update = 2
    /\ args.num_workers = 2
    /\ data_queue = <<>>
    /\ Len(all_trajectory_data) = 2
    /\ TrajSeed(all_trajectory_data[1]) = 9
    /\ TrajSeed(all_trajectory_data[2]) = 8
    /\ \A p \in DOMAIN workers : workers[p].puts = 1

\* main is inside a call of ppo_update
InPPO == pc \in {"ppo_call", "ppo_epoch", "ppo_minibatch"}

\* the parameters the current call of ppo_update was entered with: those the
\* previous iteration saved, or the initial ones
ParamsAtEntry == IF num_saves = 0 THEN InitialParams ELSE checkpoint

\* C20 as stated: a call of ppo_update leaves the batch unchanged, and the
\* permutations it draws are those of the first call, however many calls and
\* epochs were run before.
C20_NoStateAcrossUpdates ==
    /\ [][InPPO => batch' = batch]_vars
    /\ [][pc = "ppo_epoch" /\ epoch < args.num_epochs =>
              indices' = Permutation(args.seed + epoch, Len(batch.obs))]_vars

\* C20, amended: a call of ppo_update changes the parameters, the generator
\* and its own loop variables and nothing else, the batch in particular; what
\* it leaves is determined by the parameters, the batch and the generator
\* state at its entry; and the generator, created once from the seed, has at
\* the entry of a call advanced by one draw per epoch of every earlier call.
C20_OnlyParametersAndGenerator ==
    /\ [](pc = "report" =>
              /\ rng = args.seed + update * args.num_epochs
              /\ model = ppo_update(ParamsAtEntry, batch, rng - args.num_epochs,
                                    args.num_epochs, args.minibatch_size))
    /\ [][InPPO =>
              /\ UNCHANGED <<args, update, i, processes, joined, current_model_state_dict,
                             workers, data_queue, all_trajectory_data, batch, total_steps,
                             episode_rewards, episode_lengths, total_episodes, checkpoint,
                             num_saves>>
              /\ pc = "ppo_epoch" /\ epoch < args.num_epochs =>
                     /\ indices' = Permutation(
                            args.seed + (update - 1) * args.num_epochs + epoch,
                            Len(batch.obs))
                     /\ rng' = rng + 1]_vars

C20_Witness ==
    /\ pc = "report"
    /\ update = 2
    /\ args.num_epochs = 1
    /\ Len(batch.obs) = 2
    /\ rng = 6
    /\ indices = <<1, 0>>
    /\ Len(model.steps) > Len(checkpoint.steps)

====
